---- MODULE Spec2Model ----
(***************************************************************************)
(* Finance Tracker: the CSV parser (parseCSV) and the upload controller    *)
(* (App: handleFile, clear, handleSubmit) of src/src/App.tsx.              *)
(*                                                                         *)
(* Text is a sequence of one-character strings, so that split, trim,       *)
(* quote removal, lower-casing and parseFloat are computed on characters.  *)
(***************************************************************************)
EXTENDS Integers, Sequences, FiniteSets, TLC

VARIABLES
    file,          \* useState<File | null>: the selected file, or Null
    transactions,  \* useState<Transaction[]>
    error,         \* useState<string | null>
    loading,       \* useState(false)
    result,        \* useState<ImportResult | null>
    reads,         \* handleFile invocations suspended at `await f.text()`
    inflight,      \* handleSubmit invocations suspended at `await fetch(...)`
    lastOp,        \* the event handled last (observation only)
    lastArg,       \* the file that event was about (observation only)
    lastRes,       \* the response handled last (observation only)
    user,          \* AuthProvider useState<User | null>
    isLoading,     \* AuthProvider useState(true)
    store,         \* localStorage: the three google_* keys
    writer,        \* the page load that wrote each key (observation only)
    query,         \* window.location.search: the query parameters of the address
    pending,       \* checkAuth suspended at `await fetch(...)`, with what it read
    apc,           \* the page: "mount" (effect not run yet), "ready", "left"
    loads,         \* page loads so far
    authOp,        \* the auth event handled last (observation only)
    authRes,       \* the introspection outcome handled last (observation only)
    grid,          \* parser harness: the rows the text was written from
    text,          \* parser harness: the CSV text handed to parseCSV
    outcome        \* parser harness: what parseCSV(text) produced

ctlVars == <<file, transactions, error, loading, result, reads, inflight,
             lastOp, lastArg, lastRes>>
parseVars == <<grid, text, outcome>>
authVars == <<user, isLoading, store, writer, query, pending, apc, loads, authOp, authRes>>
vars == <<file, transactions, error, loading, result, reads, inflight,
          lastOp, lastArg, lastRes, grid, text, outcome,
          user, isLoading, store, writer, query, pending, apc, loads, authOp, authRes>>

Null == "null"
\* undefined: what an array yields past its end; no character sequence equals it
Undefined == <<"undefined">>
\* a number is a decimal num / 10^scale, or NaN
NaN == [nan |-> TRUE, num |-> 0, scale |-> 0]

(***************************************************************************)
(* Bounds                                                                  *)
(***************************************************************************)
MaxRows == 2       \* data rows of an enumerated CSV text
MaxPending == 2    \* file reads pending at once
MaxInflight == 2   \* import requests the model tracks at once
MaxLoads == 3      \* page loads of one behaviour

(***************************************************************************)
(* String primitives of the JavaScript runtime, on character sequences     *)
(***************************************************************************)
WhiteSpace == {" ", "\t", "\n", "\r"}

Digits == <<"0", "1", "2", "3", "4", "5", "6", "7", "8", "9">>

UpperCase == <<"A","B","C","D","E","F","G","H","I","J","K","L","M",
               "N","O","P","Q","R","S","T","U","V","W","X","Y","Z">>

LowerCase == <<"a","b","c","d","e","f","g","h","i","j","k","l","m",
               "n","o","p","q","r","s","t","u","v","w","x","y","z">>

IsDigit(c) == \E i \in 1..10 : Digits[i] = c

DigitVal(c) == (CHOOSE i \in 1..10 : Digits[i] = c) - 1

LowerChar(c) ==
    IF \E i \in 1..26 : UpperCase[i] = c
    THEN LowerCase[CHOOSE i \in 1..26 : UpperCase[i] = c]
    ELSE c

\* String.prototype.toLowerCase
toLowerCase(s) == [i \in 1..Len(s) |-> LowerChar(s[i])]

\* String.prototype.trim
trim(s) ==
    LET keep == {i \in 1..Len(s) : s[i] \notin WhiteSpace}
    IN  IF keep = {} THEN <<>>
        ELSE LET lo == CHOOSE i \in keep : \A j \in keep : i <= j
                 hi == CHOOSE i \in keep : \A j \in keep : j <= i
             IN  SubSeq(s, lo, hi)

\* String.prototype.replace(/"/g, '')
removeQuotes(s) == SelectSeq(s, LAMBDA c : c # "\"")

\* String.prototype.endsWith
endsWith(s, suffix) ==
    /\ Len(suffix) <= Len(s)
    /\ SubSeq(s, Len(s) - Len(suffix) + 1, Len(s)) = suffix

RECURSIVE splitFrom(_, _, _)
splitFrom(s, sep, i) ==
    LET hits == {j \in i..Len(s) : s[j] = sep}
    IN  IF hits = {} THEN << SubSeq(s, i, Len(s)) >>
        ELSE LET j == CHOOSE k \in hits : \A m \in hits : k <= m
             IN  << SubSeq(s, i, j - 1) >> \o splitFrom(s, sep, j + 1)

\* String.prototype.split with a one-character separator
split(s, sep) == splitFrom(s, sep, 1)

RECURSIVE digitsValue(_)
digitsValue(ds) ==
    IF ds = <<>> THEN 0
    ELSE 10 * digitsValue(SubSeq(ds, 1, Len(ds) - 1)) + DigitVal(ds[Len(ds)])

RECURSIVE digitRun(_, _)
\* the longest run of digits of s that starts at index i
digitRun(s, i) ==
    IF i <= Len(s) /\ IsDigit(s[i]) THEN <<s[i]>> \o digitRun(s, i + 1) ELSE <<>>

RECURSIVE normalise(_)
\* a decimal num / 10^scale in lowest terms, so that equal numbers are equal values
normalise(d) ==
    IF d.scale > 0 /\ d.num % 10 = 0
    THEN normalise([nan |-> FALSE, num |-> d.num \div 10, scale |-> d.scale - 1])
    ELSE d

IsNegative(a) == ~a.nan /\ a.num < 0

\* parseFloat: leading white space, an optional sign, digits, an optional
\* fraction; the longest such prefix is the number, NaN when it has no digit.
\* The absent column (undefined) is converted to the string "undefined": NaN.
parseFloat(s) ==
    IF s = Undefined THEN NaN
    ELSE
    LET t == trim(s)
        signed == t # <<>> /\ t[1] \in {"-", "+"}
        neg == t # <<>> /\ t[1] = "-"
        start == IF signed THEN 2 ELSE 1
        ip == digitRun(t, start)
        dot == start + Len(ip)
        hasDot == dot <= Len(t) /\ t[dot] = "."
        fp == IF hasDot THEN digitRun(t, dot + 1) ELSE <<>>
        mag == digitsValue(ip \o fp)
    IN  IF ip = <<>> /\ fp = <<>> THEN NaN
        ELSE normalise([nan |-> FALSE, num |-> IF neg THEN 0 - mag ELSE mag, scale |-> Len(fp)])

(***************************************************************************)
(* parseCSV (src/src/App.tsx:9-35)                                         *)
(***************************************************************************)
sDate == <<"d","a","t","e">>
sName == <<"n","a","m","e">>
sAmount == <<"a","m","o","u","n","t">>

ParseErrorMessage == "CSV must have Date, Name, and Amount columns"

\* Array.prototype.findIndex with h => h.toLowerCase() === name: 0-based, -1 when absent
findIndex(headers, name) ==
    LET hits == {i \in 1..Len(headers) : toLowerCase(headers[i]) = name}
    IN  IF hits = {} THEN -1
        ELSE (CHOOSE i \in hits : \A j \in hits : i <= j) - 1

\* line.split(',').map(c => c.trim().replace(/"/g, ''))
fields(line) ==
    LET raw == split(line, ",")
    IN  [i \in 1..Len(raw) |-> removeQuotes(trim(raw[i]))]

\* cols[idx] of a JavaScript array: undefined outside 0..length-1
at(cols, idx) == IF idx + 1 \in 1..Len(cols) THEN cols[idx + 1] ELSE Undefined

Returned(v) == [threw |-> FALSE, value |-> v, message |-> Null]
Thrown(m) == [threw |-> TRUE, value |-> <<>>, message |-> m]

KeepRowNonPositive(amount) == ~amount.nan /\ amount.num <= 0

KeepRow(amount) == IsNegative(amount)

RECURSIVE pushRows(_, _, _, _, _)
\* the for loop of parseCSV over lines[i], lines[i+1], ... (1-based here)
pushRows(lines, i, dateIdx, nameIdx, amountIdx) ==
    IF i > Len(lines) THEN <<>>
    ELSE LET cols == fields(lines[i])
             amount == parseFloat(at(cols, amountIdx))
             rest == pushRows(lines, i + 1, dateIdx, nameIdx, amountIdx)
         IN  IF KeepRow(amount)
             THEN << [date |-> at(cols, dateIdx),
                      name |-> at(cols, nameIdx),
                      amount |-> amount] >> \o rest
             ELSE rest

HeaderMissingAll(dateIdx, nameIdx, amountIdx) ==
    dateIdx = -1 /\ nameIdx = -1 /\ amountIdx = -1

HeaderMissing(dateIdx, nameIdx, amountIdx) ==
    dateIdx = -1 \/ nameIdx = -1 \/ amountIdx = -1

TooFewLines(lines) == Len(lines) < 2

parseCSV(t) ==
    LET lines == split(trim(t), "\n")
    IN  IF TooFewLines(lines) THEN Returned(<<>>)
        ELSE LET headers == fields(lines[1])
                 dateIdx == findIndex(headers, sDate)
                 nameIdx == findIndex(headers, sName)
                 amountIdx == findIndex(headers, sAmount)
             IN  IF HeaderMissing(dateIdx, nameIdx, amountIdx)
                 THEN Thrown(ParseErrorMessage)
                 ELSE Returned(pushRows(lines, 2, dateIdx, nameIdx, amountIdx))

(***************************************************************************)
(* CSV texts: a text is written from a header row and data rows.  Each     *)
(* field carries the characters written (raw), the verbatim content (str)  *)
(* and the decimal number the content denotes (val).                       *)
(***************************************************************************)
Txt(s) == [raw |-> s, str |-> s, val |-> NaN]
Fld(raw, str, val) == [raw |-> raw, str |-> str, val |-> val]
Dec(n, sc) == [nan |-> FALSE, num |-> n, scale |-> sc]
Hdr(raw, key) == [raw |-> raw, key |-> key]

hDate == Hdr(<<"D","a","t","e">>, "date")
hName == Hdr(<<"N","a","m","e">>, "name")
hAmount == Hdr(<<"A","m","o","u","n","t">>, "amount")
hdate == Hdr(<<"d","a","t","e">>, "date")
hname == Hdr(<<"n","a","m","e">>, "name")
hamount == Hdr(<<"a","m","o","u","n","t">>, "amount")
hDATE == Hdr(<<"D","A","T","E">>, "date")
hNAMEq == Hdr(<<"\"","N","A","M","E","\"">>, "name")
hAMOUNTp == Hdr(<<" ","A","M","O","U","N","T"," ">>, "amount")
hMemo == Hdr(<<"M","e","m","o">>, "other")

HeaderRows ==
    { <<hDate, hName, hAmount>>,
      <<hamount, hdate, hname>>,
      <<hNAMEq, hAMOUNTp, hMemo, hDATE>>,
      <<hDate, hdate, hName, hAmount>>,
      <<hDate, hName>>,
      <<hDate, hAmount, hMemo>>,
      <<hname, hAMOUNTp, hMemo>> }

fD1 == Fld(<<"0","1","/","0","2">>, <<"0","1","/","0","2">>, Dec(1, 0))
fD2 == Txt(<<"d","2">>)
fCoffee == Txt(<<"C","o","f","f","e","e">>)
fPad == Fld(<<" ","x"," ">>, <<"x">>, NaN)
fAbc == Txt(<<"a","b","c">>)
fM450 == Fld(<<"-","4",".","5","0">>, <<"-","4",".","5","0">>, Dec(-45, 1))
fM7 == Fld(<<"-","7">>, <<"-","7">>, Dec(-7, 0))
fM2q == Fld(<<"\"","-","2","\"">>, <<"-","2">>, Dec(-2, 0))
fM05p == Fld(<<" ","-","0",".","5"," ">>, <<"-","0",".","5">>, Dec(-5, 1))
fP1500 == Fld(<<"1","5","0","0",".","0","0">>, <<"1","5","0","0",".","0","0">>, Dec(1500, 0))
fZero == Fld(<<"0">>, <<"0">>, Dec(0, 0))
fMZero == Fld(<<"-","0">>, <<"-","0">>, Dec(0, 0))
fM3x == Fld(<<"-","3","u","s","d">>, <<"-","3","u","s","d">>, Dec(-3, 0))

DataRows ==
    { <<fD1, fCoffee, fM450>>,
      <<fM7, fD2, fPad>>,
      <<fD2, fCoffee, fP1500>>,
      <<fM2q, fPad, fM05p, fM3x>>,
      <<fD2, fAbc>>,
      <<fZero, fMZero, fCoffee>> }

LineEnds == { <<"\n">>, <<"\r", "\n">> }

RECURSIVE join(_, _)
\* the pieces of ps written one after the other with sep between them
join(ps, sep) ==
    IF ps = <<>> THEN <<>>
    ELSE IF Len(ps) = 1 THEN ps[1]
    ELSE ps[1] \o sep \o join(Tail(ps), sep)

RowText(row) == join([i \in 1..Len(row) |-> row[i].raw], <<",">>)

\* the CSV text of a grid: the header line, then one line per data row
GridText(g) ==
    join(<<RowText(g.header)>> \o [i \in 1..Len(g.rows) |-> RowText(g.rows[i])], g.eol)

RowSeqs(n) == UNION {[1..k -> DataRows] : k \in 0..n}

Grids == [header : HeaderRows, rows : RowSeqs(MaxRows), eol : LineEnds]

NoGrid == [header |-> <<>>, rows |-> <<>>, eol |-> <<>>]
NotParsed == [threw |-> FALSE, value |-> <<>>, message |-> "not parsed yet"]

(***************************************************************************)
(* Files the user can select: a name and a content                         *)
(***************************************************************************)
Files == {"A", "B", "M", "H", "T", "U"}

FileName(f) ==
    CASE f = "A" -> <<"a", ".", "c", "s", "v">>
      [] f = "B" -> <<"b", ".", "c", "s", "v">>
      [] f = "M" -> <<"m", ".", "c", "s", "v">>
      [] f = "H" -> <<"h", ".", "c", "s", "v">>
      [] f = "T" -> <<"s", ".", "t", "x", "t">>
      [] f = "U" -> <<"u", ".", "C", "S", "V">>

FileGrid(f) ==
    CASE f = "A" -> [header |-> <<hDate, hName, hAmount>>,
                     rows |-> << <<fD1, fCoffee, fM450>>, <<fD2, fCoffee, fP1500>> >>,
                     eol |-> <<"\n">>]
      [] f = "B" -> [header |-> <<hamount, hdate, hname>>,
                     rows |-> << <<fM7, fD2, fPad>> >>,
                     eol |-> <<"\r", "\n">>]
      [] f = "M" -> [header |-> <<hDate, hName>>,
                     rows |-> << <<fD2, fAbc>> >>,
                     eol |-> <<"\n">>]
      [] f = "H" -> [header |-> <<hDate, hName, hAmount>>,
                     rows |-> <<>>,
                     eol |-> <<"\n">>]
      [] f = "T" -> [header |-> <<hDate, hName, hAmount>>,
                     rows |-> << <<fD1, fCoffee, fM450>> >>,
                     eol |-> <<"\n">>]
      [] f = "U" -> [header |-> <<hDate, hName, hAmount>>,
                     rows |-> << <<fD2, fCoffee, fM7>> >>,
                     eol |-> <<"\n">>]

\* File.text(): the content of the file as text
FileText(f) == GridText(FileGrid(f))

\* parseCSV(await f.text()) of each file
ParsedFile == [f \in Files |-> parseCSV(FileText(f))]

sCsv == <<".", "c", "s", "v">>

\* f.name.endsWith('.csv')
IsCsvName(f) == endsWith(FileName(f), sCsv)

(***************************************************************************)
(* Responses of the import endpoint (fetch of src/src/App.tsx:106-116)     *)
(***************************************************************************)
Absent == [kind |-> "absent", str |-> ""]
DetailStr(s) == [kind |-> "string", str |-> s]
DetailList == [kind |-> "list", str |-> ""]

\* a parsed JSON body: null, or an object with an optional detail / total_added
JNull == [kind |-> "null", detail |-> Absent, total_added |-> 0]
JObject(d, n) == [kind |-> "object", detail |-> d, total_added |-> n]

Bodies ==
    { [parses |-> FALSE, json |-> JNull],
      [parses |-> TRUE, json |-> JNull],
      [parses |-> TRUE, json |-> JObject(Absent, 0)],
      [parses |-> TRUE, json |-> JObject(Absent, 2)],
      [parses |-> TRUE, json |-> JObject(DetailStr(""), 0)],
      [parses |-> TRUE, json |-> JObject(DetailStr("duplicate rows"), 0)],
      [parses |-> TRUE, json |-> JObject(DetailList, 0)] }

Statuses == {200, 500}

\* fetch settles: it rejects (network failure) or resolves with a status and a body
Responses ==
    { [network |-> FALSE, status |-> st, body |-> b] : st \in Statuses, b \in Bodies }
    \cup { [network |-> TRUE, status |-> 0, body |-> [parses |-> FALSE, json |-> JNull]] }

NoResponse == [network |-> TRUE, status |-> -1, body |-> [parses |-> FALSE, json |-> JNull]]

\* Response.ok
ResOk(r) == r.status \in 200..299

UnsupportedMessage == "Please upload a CSV file"
ParseFallbackMessage == "Failed to parse CSV"
ReadErrorMessage == "NotReadableError: the file could not be read"
ImportFailedMessage == "Import failed"
NetworkErrorMessage == "TypeError: Failed to fetch"
JsonSyntaxMessage == "SyntaxError: Unexpected token in JSON"
NullDetailMessage == "TypeError: Cannot read properties of null (reading 'detail')"
ObjectString == "[object Object]"

\* JavaScript truthiness of err.detail
Truthy(d) == d.kind = "list" \/ (d.kind = "string" /\ d.str # "")

\* String(err.detail), the message new Error(...) is given
StringOf(d) == IF d.kind = "string" THEN d.str ELSE ObjectString

DetailIgnored(d) == ImportFailedMessage

\* err.detail || 'Import failed'
DetailOrDefault(d) == IF Truthy(d) THEN StringOf(d) ELSE ImportFailedMessage

\* the message of the error thrown on the !res.ok path (lines 111-114)
RejectedMessage(body) ==
    IF ~body.parses THEN JsonSyntaxMessage
    ELSE IF body.json.kind = "null" THEN NullDetailMessage
    ELSE DetailOrDefault(body.json.detail)

RemoveAt(s, i) == SubSeq(s, 1, i - 1) \o SubSeq(s, i + 1, Len(s))

(***************************************************************************)
(* Auth controller data (AuthProvider, src/src/AuthContext.tsx)            *)
(***************************************************************************)
Tokens == {"t1", "t2"}
Expiries == {"e1", "e2"}
Profiles == {"p1", "p2"}

\* a string that is meant to hold JSON: absent (null), empty, not JSON, or the
\* JSON of a profile, written with or without insignificant white space
NoText == [kind |-> "absent", profile |-> Null, spaced |-> FALSE]
EmptyText == [kind |-> "empty", profile |-> Null, spaced |-> FALSE]
BadText == [kind |-> "bad", profile |-> Null, spaced |-> FALSE]
JsonText(p, sp) == [kind |-> "json", profile |-> p, spaced |-> sp]

UserTexts ==
    {NoText, EmptyText, BadText} \cup {JsonText(p, sp) : p \in Profiles, sp \in BOOLEAN}

\* truthiness of a string or null
TruthyText(t) == t.kind \notin {"absent", "empty"}

\* JSON.parse: the value (null for the argument null), or a SyntaxError
JSONparse(t) ==
    IF t.kind \in {"json", "absent"} THEN [threw |-> FALSE, value |-> t.profile]
    ELSE [threw |-> TRUE, value |-> Null]

\* JSON.stringify: the text without insignificant white space
JSONstringify(p) == JsonText(p, FALSE)

\* the query parameters the effect reads: auth_error, access_token, expiry, user
NoQuery == [auth_error |-> FALSE, access_token |-> Null, expiry |-> Null, user |-> NoText]

Queries ==
    [auth_error : BOOLEAN, access_token : Tokens \cup {Null},
     expiry : Expiries \cup {Null}, user : UserTexts]

\* the addresses a page load can have: none, an error marker (alone or, against
\* the contract, next to a token), or a callback with a token
LoadQueries ==
    {q \in Queries :
        \/ q = NoQuery
        \/ q.auth_error /\ q.expiry = Null /\ q.user = NoText
        \/ ~q.auth_error /\ q.access_token # Null}

EmptyStore == [token |-> Null, info |-> NoText, expiry |-> Null]
NoWriter == [token |-> 0, info |-> 0, expiry |-> 0]
NoPending == [active |-> FALSE, token |-> Null, info |-> NoText]

\* the token-introspection call settles: a status, or a network failure (status 0)
IntrospectStatuses == {200, 401}
IntrospectOutcomes == IntrospectStatuses \cup {0}
NoOutcome == -1

\* the auth controller before any page load of it is looked at
AuthIdle ==
    /\ user = Null
    /\ isLoading = TRUE
    /\ store = EmptyStore
    /\ writer = NoWriter
    /\ query = NoQuery
    /\ pending = NoPending
    /\ apc = "mount"
    /\ loads = 1
    /\ authOp = "init"
    /\ authRes = NoOutcome

(***************************************************************************)
(* Upload controller (App, src/src/App.tsx:52-123)                         *)
(***************************************************************************)
Init ==
    /\ file = Null
    /\ transactions = <<>>
    /\ error = Null
    /\ loading = FALSE
    /\ result = JNull
    /\ reads = <<>>
    /\ inflight = <<>>
    /\ lastOp = "init"
    /\ lastArg = Null
    /\ lastRes = NoResponse
    /\ grid = NoGrid
    /\ text = <<>>
    /\ outcome = NotParsed
    /\ AuthIdle

\* handleFile(f) up to its await: onDrop / onChange with file f
Select(f) ==
    /\ IF ~IsCsvName(f)
       THEN /\ error' = UnsupportedMessage
            /\ UNCHANGED <<file, reads>>
       ELSE /\ Len(reads) < MaxPending
            /\ error' = Null
            /\ file' = f
            /\ reads' = Append(reads, f)
    /\ lastOp' = "select"
    /\ lastArg' = f
    /\ lastRes' = NoResponse
    /\ UNCHANGED <<transactions, loading, result, inflight>>
    /\ UNCHANGED <<parseVars, authVars>>

ReadDoneKeepsRows(i) ==
    LET f == reads[i]
        parsed == ParsedFile[f]
    IN  /\ IF parsed.threw
           THEN /\ error' = parsed.message
                /\ UNCHANGED transactions
           ELSE /\ transactions' = parsed.value
                /\ UNCHANGED error
        /\ reads' = RemoveAt(reads, i)
        /\ lastOp' = "readDone"
        /\ lastArg' = f
        /\ lastRes' = NoResponse
        /\ UNCHANGED <<file, loading, result, inflight>>
        /\ UNCHANGED <<parseVars, authVars>>

\* handleFile after `await f.text()` resolved: setTransactions(parseCSV(text)) or the catch
ReadDone(i) ==
    LET f == reads[i]
        parsed == ParsedFile[f]
    IN  /\ IF parsed.threw
           THEN /\ error' = parsed.message
                /\ transactions' = <<>>
           ELSE /\ transactions' = parsed.value
                /\ UNCHANGED error
        /\ reads' = RemoveAt(reads, i)
        /\ lastOp' = "readDone"
        /\ lastArg' = f
    /\ lastRes' = NoResponse
        /\ UNCHANGED <<file, loading, result, inflight>>
        /\ UNCHANGED <<parseVars, authVars>>

\* handleFile after `await f.text()` rejected: the catch block
ReadFail(i) ==
    /\ error' \in {ReadErrorMessage, ParseFallbackMessage}
    /\ transactions' = <<>>
    /\ reads' = RemoveAt(reads, i)
    /\ lastOp' = "readFail"
    /\ lastArg' = reads[i]
    /\ lastRes' = NoResponse
    /\ UNCHANGED <<file, loading, result, inflight>>
    /\ UNCHANGED <<parseVars, authVars>>

\* the remove button is rendered when file && !error
ClearShown == file # Null /\ error = Null

ResultKept == result

ClearedResult == JNull

ClearCancels ==
    /\ ClearShown
    /\ file' = Null
    /\ transactions' = <<>>
    /\ error' = Null
    /\ result' = ClearedResult
    /\ loading' = FALSE
    /\ inflight' = <<>>
    /\ lastOp' = "clear"
    /\ lastArg' = Null
    /\ lastRes' = NoResponse
    /\ UNCHANGED reads
    /\ UNCHANGED <<parseVars, authVars>>

\* clear(), from a click on the remove button
Clear ==
    /\ ClearShown
    /\ file' = Null
    /\ transactions' = <<>>
    /\ error' = Null
    /\ result' = ClearedResult
    /\ lastOp' = "clear"
    /\ lastArg' = Null
    /\ lastRes' = NoResponse
    /\ UNCHANGED <<loading, reads, inflight>>
    /\ UNCHANGED <<parseVars, authVars>>

SubmitDisabledWhenEmpty == transactions = <<>>

\* disabled={!transactions.length || loading}
SubmitDisabled == transactions = <<>> \/ loading

SubmitReturnsWhenEmpty == transactions = <<>>

\* if (!file || !transactions.length) return
SubmitReturnsEarly == file = Null \/ transactions = <<>>

\* a click on the submit button: nothing when disabled, else handleSubmit up to its await
Submit ==
    /\ IF SubmitDisabled \/ SubmitReturnsEarly
       THEN UNCHANGED <<loading, error, result, inflight>>
       ELSE /\ Len(inflight) < MaxInflight
            /\ loading' = TRUE
            /\ error' = Null
            /\ result' = JNull
            /\ inflight' = Append(inflight, file)
    /\ lastOp' = "submit"
    /\ lastArg' = file
    /\ lastRes' = NoResponse
    /\ UNCHANGED <<file, transactions, reads>>
    /\ UNCHANGED <<parseVars, authVars>>

RespondNoFinally(i, r) ==
    /\ IF r.network
       THEN /\ error' = NetworkErrorMessage
            /\ UNCHANGED <<result, loading>>
       ELSE IF ~ResOk(r)
       THEN /\ error' = RejectedMessage(r.body)
            /\ UNCHANGED <<result, loading>>
       ELSE IF ~r.body.parses
       THEN /\ error' = JsonSyntaxMessage
            /\ UNCHANGED <<result, loading>>
       ELSE /\ result' = r.body.json
            /\ loading' = FALSE
            /\ UNCHANGED error
    /\ inflight' = RemoveAt(inflight, i)
    /\ lastOp' = "respond"
    /\ lastArg' = inflight[i]
    /\ lastRes' = r
    /\ UNCHANGED <<file, transactions, reads>>
    /\ UNCHANGED <<parseVars, authVars>>

\* handleSubmit after `await fetch(...)` settled with r: try / catch / finally
Respond(i, r) ==
    /\ IF r.network
       THEN /\ error' = NetworkErrorMessage
            /\ UNCHANGED result
       ELSE IF ~ResOk(r)
       THEN /\ error' = RejectedMessage(r.body)
            /\ UNCHANGED result
       ELSE IF ~r.body.parses
       THEN /\ error' = JsonSyntaxMessage
            /\ UNCHANGED result
       ELSE /\ result' = r.body.json
            /\ UNCHANGED error
    /\ loading' = FALSE
    /\ inflight' = RemoveAt(inflight, i)
    /\ lastOp' = "respond"
    /\ lastArg' = inflight[i]
    /\ lastRes' = r
    /\ UNCHANGED <<file, transactions, reads>>
    /\ UNCHANGED <<parseVars, authVars>>

Next ==
    \/ \E f \in Files : Select(f)
    \/ \E i \in 1..Len(reads) : ReadDone(i)
    \/ \E i \in 1..Len(reads) : ReadFail(i)
    \/ Clear
    \/ Submit
    \/ \E i \in 1..Len(inflight), r \in Responses : Respond(i, r)

Spec == Init /\ [][Next]_vars

(***************************************************************************)
(* Parser harness: parseCSV applied to every enumerated text               *)
(***************************************************************************)
InitParse ==
    /\ grid \in Grids
    /\ text = GridText(grid)
    /\ outcome = NotParsed
    /\ file = Null /\ transactions = <<>> /\ error = Null /\ loading = FALSE
    /\ result = JNull /\ reads = <<>> /\ inflight = <<>>
    /\ lastOp = "init" /\ lastArg = Null /\ lastRes = NoResponse
    /\ AuthIdle

Parse ==
    /\ outcome = NotParsed
    /\ outcome' = parseCSV(text)
    /\ UNCHANGED <<grid, text>>
    /\ UNCHANGED <<ctlVars, authVars>>

NextParse == Parse

SpecParse == InitParse /\ [][NextParse]_vars

(***************************************************************************)
(* Auth controller (AuthProvider, src/src/AuthContext.tsx:22-126)          *)
(***************************************************************************)
InitAuth ==
    /\ user = Null
    /\ isLoading = TRUE
    /\ store = EmptyStore
    /\ writer = NoWriter
    /\ query \in LoadQueries
    /\ pending = NoPending
    /\ apc = "mount"
    /\ loads = 1
    /\ authOp = "init"
    /\ authRes = NoOutcome
    /\ file = Null /\ transactions = <<>> /\ error = Null /\ loading = FALSE
    /\ result = JNull /\ reads = <<>> /\ inflight = <<>>
    /\ lastOp = "init" /\ lastArg = Null /\ lastRes = NoResponse
    /\ grid = NoGrid /\ text = <<>> /\ outcome = NotParsed

\* the three removeItem calls
RemovedStore == EmptyStore

CallbackThrowsOnBadJson == JSONparse(query.user).threw

\* if (!accessToken || !userJson) throw, and JSON.parse(userJson) throwing
CallbackThrows == query.access_token = Null \/ ~TruthyText(query.user)
                  \/ JSONparse(query.user).threw

\* the address after handleOAuthCallback went into its catch block
QueryAfterFailure == query

handleOAuthCallbackNoFinally ==
    /\ IF CallbackThrows
       THEN UNCHANGED <<user, store, writer, query, isLoading>>
       ELSE LET userData == JSONparse(query.user).value
            IN  /\ store' = [token |-> query.access_token,
                             info |-> JSONstringify(userData),
                             expiry |-> IF query.expiry # Null THEN query.expiry
                                        ELSE store.expiry]
                /\ writer' = [token |-> loads,
                              info |-> loads,
                              expiry |-> IF query.expiry # Null THEN loads
                                         ELSE writer.expiry]
                /\ user' = userData
                /\ query' = NoQuery
                /\ isLoading' = FALSE
    /\ UNCHANGED pending

\* handleOAuthCallback(params): try, catch, finally
handleOAuthCallback ==
    /\ IF CallbackThrows
       THEN /\ query' = QueryAfterFailure
            /\ UNCHANGED <<user, store, writer>>
       ELSE LET userData == JSONparse(query.user).value
            IN  /\ store' = [token |-> query.access_token,
                             info |-> JSONstringify(userData),
                             expiry |-> IF query.expiry # Null THEN query.expiry
                                        ELSE store.expiry]
                /\ writer' = [token |-> loads,
                              info |-> loads,
                              expiry |-> IF query.expiry # Null THEN loads
                                         ELSE writer.expiry]
                /\ user' = userData
                /\ query' = NoQuery
    /\ isLoading' = FALSE
    /\ UNCHANGED pending

\* checkAuth() up to its await, or to its end when nothing is persisted
checkAuth ==
    /\ IF store.token # Null /\ TruthyText(store.info)
       THEN /\ pending' = [active |-> TRUE, token |-> store.token, info |-> store.info]
            /\ UNCHANGED isLoading
       ELSE /\ isLoading' = FALSE
            /\ UNCHANGED pending
    /\ UNCHANGED <<user, store, writer, query>>

\* the effect of AuthProvider, run once after the first render
Mount ==
    /\ apc = "mount"
    /\ apc' = "ready"
    /\ IF query.auth_error
       THEN /\ isLoading' = FALSE
            /\ query' = NoQuery
            /\ UNCHANGED <<user, store, writer, pending>>
       ELSE IF query.access_token # Null
       THEN handleOAuthCallback
       ELSE checkAuth
    /\ authOp' = "mount"
    /\ authRes' = NoOutcome
    /\ UNCHANGED loads
    /\ UNCHANGED <<ctlVars, parseVars>>

IntrospectDoneNoCatch(r) ==
    /\ apc = "ready"
    /\ pending.active
    /\ IF r \in 200..299 /\ ~JSONparse(pending.info).threw
       THEN /\ user' = JSONparse(pending.info).value
            /\ UNCHANGED <<store, writer>>
       ELSE IF r = 0
       THEN UNCHANGED <<user, store, writer>>
       ELSE /\ store' = RemovedStore
            /\ writer' = NoWriter
            /\ UNCHANGED user
    /\ isLoading' = FALSE
    /\ pending' = NoPending
    /\ authOp' = "introspect"
    /\ authRes' = r
    /\ UNCHANGED <<query, apc, loads>>
    /\ UNCHANGED <<ctlVars, parseVars>>

\* checkAuth() after its fetch settled with status r (0: the fetch rejected)
IntrospectDone(r) ==
    /\ apc = "ready"
    /\ pending.active
    /\ IF r \in 200..299 /\ ~JSONparse(pending.info).threw
       THEN /\ user' = JSONparse(pending.info).value
            /\ UNCHANGED <<store, writer>>
       ELSE /\ store' = RemovedStore
            /\ writer' = NoWriter
            /\ UNCHANGED user
    /\ isLoading' = FALSE
    /\ pending' = NoPending
    /\ authOp' = "introspect"
    /\ authRes' = r
    /\ UNCHANGED <<query, apc, loads>>
    /\ UNCHANGED <<ctlVars, parseVars>>

SignOutKeepsUser ==
    /\ apc = "ready"
    /\ store' = RemovedStore
    /\ writer' = NoWriter
    /\ authOp' = "signOut"
    /\ authRes' = NoOutcome
    /\ UNCHANGED <<user, isLoading, query, pending, apc, loads>>
    /\ UNCHANGED <<ctlVars, parseVars>>

\* signOut()
SignOut ==
    /\ apc = "ready"
    /\ store' = RemovedStore
    /\ writer' = NoWriter
    /\ user' = Null
    /\ authOp' = "signOut"
    /\ authRes' = NoOutcome
    /\ UNCHANGED <<isLoading, query, pending, apc, loads>>
    /\ UNCHANGED <<ctlVars, parseVars>>

\* getAccessToken()
getAccessToken == store.token

\* isAuthenticated: !!user
isAuthenticated == user # Null

\* signIn(): the page is left for the OAuth provider
SignIn ==
    /\ apc = "ready"
    /\ apc' = "left"
    /\ pending' = NoPending
    /\ authOp' = "signIn"
    /\ authRes' = NoOutcome
    /\ UNCHANGED <<user, isLoading, store, writer, query, loads>>
    /\ UNCHANGED <<ctlVars, parseVars>>

\* the page is loaded (again) with query q: a new AuthProvider over the same storage
PageLoad(q) ==
    /\ loads < MaxLoads
    /\ loads' = loads + 1
    /\ user' = Null
    /\ isLoading' = TRUE
    /\ pending' = NoPending
    /\ query' = q
    /\ apc' = "mount"
    /\ authOp' = "load"
    /\ authRes' = NoOutcome
    /\ UNCHANGED <<store, writer>>
    /\ UNCHANGED <<ctlVars, parseVars>>

NextAuth ==
    \/ Mount
    \/ \E r \in IntrospectOutcomes : IntrospectDone(r)
    \/ SignOut
    \/ SignIn
    \/ \E q \in LoadQueries : PageLoad(q)

SpecAuth == InitAuth /\ [][NextAuth]_vars

\* the effect runs after the first render, and the introspection call settles
FairSpecAuth ==
    /\ SpecAuth
    /\ WF_vars(Mount)
    /\ WF_vars(\E r \in IntrospectOutcomes : IntrospectDone(r))

\* every import request settles
FairSpec == Spec /\ WF_vars(\E i \in 1..Len(inflight), r \in Responses : Respond(i, r))

(***************************************************************************)
(* What a grid says its text contains, read off the grid itself            *)
(***************************************************************************)
HasHeader(g, key) == \E i \in 1..Len(g.header) : g.header[i].key = key

ValidHeader(g) == HasHeader(g, "date") /\ HasHeader(g, "name") /\ HasHeader(g, "amount")

\* the first column whose header is key
ColumnOf(g, key) ==
    CHOOSE i \in 1..Len(g.header) :
        /\ g.header[i].key = key
        /\ \A j \in 1..Len(g.header) : g.header[j].key = key => i <= j

MissingCell == [raw |-> <<>>, str |-> Undefined, val |-> NaN]

Cell(row, c) == IF c <= Len(row) THEN row[c] ELSE MissingCell

AmountOf(g, row) == Cell(row, ColumnOf(g, "amount")).val

IsPurchase(g, row) == ~AmountOf(g, row).nan /\ AmountOf(g, row).num < 0

TransactionOf(g, row) ==
    [date |-> Cell(row, ColumnOf(g, "date")).str,
     name |-> Cell(row, ColumnOf(g, "name")).str,
     amount |-> AmountOf(g, row)]

Purchases(g) ==
    LET kept == SelectSeq(g.rows, LAMBDA row : IsPurchase(g, row))
    IN  [i \in 1..Len(kept) |-> TransactionOf(g, kept[i])]

Parsed == outcome # NotParsed

HeldState == <<file, transactions, error, result, loading, reads, inflight>>

(***************************************************************************)
(* Claims                                                                  *)
(***************************************************************************)

\* C1: after a file whose name does not end in ".csv" is selected, the error
\* text is the unsupported-file-type message and the transaction list is empty.
C1_UnsupportedClearsTransactions ==
    (lastOp = "select" /\ ~IsCsvName(lastArg)) =>
        (error = UnsupportedMessage /\ transactions = <<>>)

\* C2: at most one import request is in flight, and a submit action taken
\* while loading is true sends no request and changes no state.
C2_SingleSubmission ==
    [][ /\ Len(inflight') <= 1
        /\ (loading /\ lastOp' = "submit") => UNCHANGED HeldState ]_vars

C2_Witness ==
    /\ lastOp = "submit"
    /\ loading
    /\ transactions # <<>>
    /\ inflight = <<"A">>
    /\ lastArg = "B"

\* C3: once every pending read has completed, the transaction list is the
\* one parsed from the file selected last (the selected file).
C3_LaterSelectionWins ==
    (lastOp = "readDone" /\ reads = <<>> /\ file # Null) =>
        transactions = IF ValidHeader(FileGrid(file))
                       THEN Purchases(FileGrid(file))
                       ELSE <<>>

\* C4 (as stated): after a non-2xx response the error text is the body's
\* detail string when it has one and otherwise exactly "Import failed", also
\* when the body cannot be parsed; no import result is stored.
C4_DetailOrImportFailed ==
    (lastOp = "respond" /\ ~lastRes.network /\ lastRes.status \notin 200..299) =>
        /\ result = JNull
        /\ error = IF /\ lastRes.body.parses
                      /\ lastRes.body.json.kind = "object"
                      /\ lastRes.body.json.detail.kind = "string"
                   THEN lastRes.body.json.detail.str
                   ELSE ImportFailedMessage

\* C4 (amended): after a non-2xx response no import result is stored; the
\* error text is the detail when the body is a JSON object with a non-empty
\* detail string, "Import failed" when the object's detail is absent or empty,
\* the string conversion of a detail that is not a string, and the message of
\* the failure itself when the body is not JSON or is JSON null.
C4_RejectedErrorText ==
    (lastOp = "respond" /\ ~lastRes.network /\ lastRes.status \notin 200..299) =>
        LET b == lastRes.body
        IN  /\ result = JNull
            /\ ~b.parses => error = JsonSyntaxMessage
            /\ (b.parses /\ b.json.kind = "null") => error = NullDetailMessage
            /\ (b.parses /\ b.json.kind = "object") =>
                  LET d == b.json.detail
                  IN  /\ (d.kind = "string" /\ d.str # "") => error = d.str
                      /\ (d.kind = "string" /\ d.str = "") => error = ImportFailedMessage
                      /\ d.kind = "absent" => error = ImportFailedMessage
                      /\ d.kind = "list" => error = ObjectString

C4_Witness ==
    /\ lastOp = "respond"
    /\ lastRes.status = 500
    /\ lastRes.body.parses
    /\ lastRes.body.json.detail = DetailStr("duplicate rows")
    /\ error = "duplicate rows"

\* C5: after a .csv file is selected, no import result and no error text of
\* an earlier submission is held.
C5_SelectionResets ==
    (lastOp = "select" /\ IsCsvName(lastArg)) => (result = JNull /\ error = Null)

\* C6: a submit action taken with no file selected or with an empty
\* transaction list sends no request and changes no state.
C6_SubmitNoop ==
    [][ (lastOp' = "submit" /\ (file = Null \/ transactions = <<>>)) =>
            UNCHANGED HeldState ]_vars

C6_Witness ==
    /\ lastOp = "submit"
    /\ file = Null
    /\ transactions # <<>>
    /\ ~loading
    /\ inflight = <<>>

\* C7: when the read of a file completes and the parser fails on its content
\* (a header is missing and there is a data row), the error text is the
\* parser's message and the transaction list is empty; while the list is
\* empty submit changes nothing, and the list becomes non-empty only by a
\* read whose content parses.
C7_ParserFailure ==
    [][ /\ (/\ lastOp' = "readDone"
            /\ ~ValidHeader(FileGrid(lastArg'))
            /\ FileGrid(lastArg').rows # <<>>) =>
               (error' = ParseErrorMessage /\ transactions' = <<>>)
        /\ (transactions = <<>> /\ lastOp' = "submit") => UNCHANGED HeldState
        /\ (transactions = <<>> /\ transactions' # <<>>) =>
               (lastOp' = "readDone" /\ ValidHeader(FileGrid(lastArg'))) ]_vars

C7_Witness ==
    /\ lastOp = "readDone"
    /\ lastArg = "M"
    /\ file = "M"
    /\ loading
    /\ error = ParseErrorMessage
    /\ transactions = <<>>

\* C8: after clear() the selected file is absent, the transaction list is
\* empty, the error text is absent and the last import result is absent.
C8_ClearIdle ==
    lastOp = "clear" =>
        (file = Null /\ transactions = <<>> /\ error = Null /\ result = JNull)

C8_Witness ==
    /\ lastOp = "clear"
    /\ loading
    /\ reads # <<>>
    /\ file = Null

\* C9: for a text with a valid header, parseCSV returns exactly the data rows
\* whose amount is strictly negative, in row order, with date, name and
\* amount taken from the columns the header names.
C9_NegativeRowsInOrder ==
    (Parsed /\ ValidHeader(grid)) => outcome = Returned(Purchases(grid))

C9_Witness ==
    /\ Parsed
    /\ ValidHeader(grid)
    /\ grid.header[1].key # "date"
    /\ Len(grid.rows) = 2
    /\ ~outcome.threw
    /\ Len(outcome.value) = 1
    /\ outcome.value[1] = TransactionOf(grid, grid.rows[2])

\* C10 (as stated): for every text whose header line lacks one of the three
\* headers, parseCSV fails with the malformed-input error.
C10_MissingHeaderFails ==
    (Parsed /\ ~ValidHeader(grid)) => outcome = Thrown(ParseErrorMessage)

\* C10 (amended): for every text with a header line lacking one of the three
\* headers and at least one data row, parseCSV fails with the malformed-input
\* error; with a header line alone it returns the empty sequence.
C10_MissingHeaderWithRowsFails ==
    (Parsed /\ ~ValidHeader(grid)) =>
        outcome = IF grid.rows # <<>> THEN Thrown(ParseErrorMessage) ELSE Returned(<<>>)

C10_Witness ==
    /\ Parsed
    /\ ~ValidHeader(grid)
    /\ grid.rows # <<>>
    /\ outcome.threw

\* a callback: the effect found an access token and no error marker
IsCallback(q) == ~q.auth_error /\ q.access_token # Null

\* C11: a callback that carries access_token and no user parameter leaves the
\* user absent, loading finished and the three storage keys as they were.
C11_CallbackWithoutUser ==
    [][ (authOp' = "mount" /\ IsCallback(query) /\ query.user = NoText) =>
            (user' = Null /\ ~isLoading' /\ store' = store) ]_vars

C11_Witness ==
    /\ authOp = "mount"
    /\ IsCallback(query)
    /\ query.user = NoText
    /\ store.token # Null
    /\ store.token # query.access_token
    /\ user = Null
    /\ ~isLoading

\* C12: after callback handling the query parameters are stripped from the
\* address, on success and on failure.
C12_CallbackStripsQuery ==
    [][ (authOp' = "mount" /\ IsCallback(query)) => query' = NoQuery ]_vars

\* C13: when the introspection call of a session restore settles, a non-2xx
\* status or a network failure removes the three keys and leaves the user
\* absent; a 2xx status leaves the user set to the persisted profile and
\* storage unchanged; loading is finished either way.
C13_RestoreOutcome ==
    [][ authOp' = "introspect" =>
            /\ ~isLoading'
            /\ IF authRes' \in 200..299
               THEN /\ user' # Null
                    /\ store' = store
                    /\ store.token # Null => user' = store.info.profile
               ELSE /\ store' = EmptyStore
                    /\ user' = Null ]_vars

C13_Witness ==
    /\ authOp = "introspect"
    /\ authRes = 0
    /\ store = EmptyStore
    /\ user = Null
    /\ ~isLoading

\* C14: token and profile are both stored or both absent, and a stored expiry
\* comes with a token and was written by the page load that wrote that token.
C14_KeysAsUnit ==
    /\ (store.token = Null) <=> (store.info = NoText)
    /\ store.expiry # Null => (store.token # Null /\ writer.expiry = writer.token)

\* C15 (as stated): after signOut() the three keys are removed, the user is
\* absent, the controller is Unauthenticated (loading finished) and
\* getAccessToken() returns the absent value.
C15_SignOutUnauthenticated ==
    authOp = "signOut" =>
        (store = EmptyStore /\ user = Null /\ ~isLoading /\ getAccessToken = Null)

\* C15 (amended): signOut() removes the three keys and clears the user, so
\* that isAuthenticated is false and getAccessToken() returns the absent value;
\* it does not touch the loading flag.
C15_SignOutClears ==
    [][ authOp' = "signOut" =>
            /\ store' = EmptyStore
            /\ user' = Null
            /\ ~isAuthenticated'
            /\ getAccessToken' = Null
            /\ isLoading' = isLoading ]_vars

C15_Witness ==
    /\ authOp = "signOut"
    /\ store = EmptyStore
    /\ user = Null
    /\ ~isLoading
    /\ loads = 1
    /\ query = NoQuery

\* C16: clear() cancels no request in flight, and a response that arrives
\* while no file is selected is still written: a parsable 2xx body is stored
\* as the result, anything else sets the error text.
C16_ResponseAfterClear ==
    [][ /\ lastOp' = "clear" => (inflight' = inflight /\ loading' = loading)
        /\ (lastOp' = "respond" /\ file = Null) =>
              /\ file' = Null
              /\ IF ~lastRes'.network /\ ResOk(lastRes') /\ lastRes'.body.parses
                 THEN result' = lastRes'.body.json
                 ELSE error' # Null ]_vars

C16_Witness ==
    /\ lastOp = "respond"
    /\ file = Null
    /\ transactions = <<>>
    /\ result # JNull

\* the response shapes C17 lists: a network failure, a non-2xx status, a 2xx
\* status with an unparsable body, a 2xx status with an object body
ListedShape(r) == r.network \/ ~ResOk(r) \/ ~r.body.parses \/ r.body.json.kind = "object"

StoresResult(r) == ~r.network /\ ResOk(r) /\ r.body.parses

\* C17 (as stated): when the response arrives loading is false and exactly one
\* of {import result stored, error text set} holds.
C17_ExactlyOneOutcome ==
    (lastOp = "respond" /\ ListedShape(lastRes)) =>
        (~loading /\ ((result # JNull) # (error # Null)))

\* C17 (amended): every accepted submit leaves Submitting once its request
\* settles; at that moment loading is false, a 2xx response with a parsable
\* body has its body stored as the result and leaves the error text as it was,
\* and every other response sets the error text and stores no result.
C17_SubmitSettles ==
    /\ loading ~> ~loading
    /\ [][ lastOp' = "respond" =>
              /\ ~loading'
              /\ IF StoresResult(lastRes')
                 THEN result' = lastRes'.body.json /\ error' = error
                 ELSE error' # Null /\ result' = JNull ]_vars

C17_Witness ==
    /\ lastOp = "respond"
    /\ StoresResult(lastRes)
    /\ ~loading
    /\ result # JNull
    /\ error = UnsupportedMessage

\* C18: whenever submit is enabled (file selected, list non-empty, not
\* loading) the transaction list is the parse of the selected file.
C18_PreviewMatchesFile ==
    (file # Null /\ transactions # <<>> /\ ~loading) =>
        transactions = IF ValidHeader(FileGrid(file))
                       THEN Purchases(FileGrid(file))
                       ELSE <<>>

\* C19: whenever the user is present in memory, the access token and the
\* profile are present in storage.
C19_AuthenticatedHasSession ==
    user # Null => (store.token # Null /\ store.info # NoText)

\* C20: while the page stays open the controller leaves Loading, and it does
\* not return to Loading without a new page load.
C20_LeavesLoading ==
    /\ (isLoading /\ apc # "left") ~> (~isLoading \/ apc = "left")
    /\ [][ (~isLoading /\ authOp' # "load") => ~isLoading' ]_vars

C20_Witness ==
    /\ authOp = "introspect"
    /\ authRes = 401
    /\ ~isLoading
    /\ user = Null
    /\ apc = "ready"

====
